---- MODULE Spec2Model ----
(***************************************************************************)
(* Commission lifecycle and messaging of calayo-clothing-solid.            *)
(*                                                                         *)
(* The store (the hosted relational tables) is the shared state; every     *)
(* browser holds one signed-in identity (context/auth.tsx) and one mounted *)
(* route component with its signals.  Each handler of a component is one   *)
(* action; an awaited store request is applied to the store in the step    *)
(* that handles its response.                                              *)
(***************************************************************************)
EXTENDS Integers, Sequences, FiniteSets, TLC

\* ------------------------------------------------------------------ bounds
MaxCommissions == 1
MaxMessages == 2
MaxFetches == 1
MaxUpdates == 2

\* ------------------------------------------------------------- identities
NoUser == ""
ADMIN_ID == "admin"
Browsers == {"b1", "b2"}

\* Who signs in where, and which routes each browser visits: b1 is a customer's
\* browser, b2 the one the admin pages are opened in (by the admin or by bob).
SignIns == [b1 |-> {"alice", "bob"}, b2 |-> {"bob", ADMIN_ID}]
Visits == [b1 |-> {"closed", "create", "edit", "details"},
           b2 |-> {"closed", "adminDetail", "adminList"}]

NoId == 0
CommissionIds == 1..MaxCommissions

\* ------------------------------------------------------------------ values
DetailStatuses == {"Pending", "In Progress", "Completed", "Cancelled"}
ListStatuses == {"pending", "in progress", "completed", "cancelled"}

ToLowerCase(s) ==
  CASE s = "Pending" -> "pending"
    [] s = "In Progress" -> "in progress"
    [] s = "Completed" -> "completed"
    [] s = "Cancelled" -> "cancelled"
    [] OTHER -> s

ZeroMeasurements ==
  [chest |-> 0, waist |-> 0, hips |-> 0, length |-> 0, inseam |-> 0, shoulders |-> 0]

ShirtMeasurements ==
  [chest |-> 40, waist |-> 0, hips |-> 0, length |-> 0, inseam |-> 0, shoulders |-> 18]

EmptyForm ==
  [_id |-> NoId, status |-> "", garmentType |-> "", measurements |-> ZeroMeasurements,
   budget |-> "", timeline |-> "", details |-> "", user_id |-> NoUser]

\* What a user can type into the form fields (handleInputChange sets any named field).
FormInputs ==
  {[status |-> sd[1], garmentType |-> "shirt", measurements |-> ShirtMeasurements,
    budget |-> "300-500", timeline |-> "1-2weeks", details |-> sd[2]] :
     sd \in {<<"", "navy linen shirt">>, <<"Completed", "navy cotton shirt">>, <<"", "">>}}

\* The select options of the forms, and the unselected "".
GarmentTypes == {"shirt", "jacket", "pants", "other"}
Budgets == {"100-300", "300-500", "500-1000", "1000+"}
Timelines == {"1-2weeks", "3-4weeks", "1-2months", "flexible"}

\* Measurements typed into the number inputs (parseFloat(value) || 0): every
\* field filled, one left at 0, or several not positive (one pasted negative).
FullMeasurements ==
  [chest |-> 40, waist |-> 32, hips |-> 38, length |-> 41, inseam |-> 30, shoulders |-> 18]

MeasurementInputs ==
  {ZeroMeasurements, ShirtMeasurements, FullMeasurements,
   [FullMeasurements EXCEPT !.chest = 0], [FullMeasurements EXCEPT !.shoulders = 0],
   [FullMeasurements EXCEPT !.waist = 0], [FullMeasurements EXCEPT !.hips = 0],
   [FullMeasurements EXCEPT !.length = 0], [FullMeasurements EXCEPT !.inseam = 0],
   [FullMeasurements EXCEPT !.waist = 0, !.inseam = -1]}

TextInputs ==
  {<<"300-500", "1-2weeks", "navy linen shirt">>, <<"300-500", "1-2weeks", "">>,
   <<"", "1-2weeks", "">>, <<"", "", "">>}

FormInput(g, m, bt) ==
  [status |-> "", garmentType |-> g, measurements |-> m, budget |-> bt[1],
   timeline |-> bt[2], details |-> bt[3]]

\* The ways of filling in a form: every measurement input with the other fields
\* filled, and every way of leaving the other fields out with the measurements
\* filled or several of them missing.
ValidationInputs ==
  {FormInput(g, m, <<"300-500", "1-2weeks", "navy linen shirt">>) :
     g \in {"shirt", "jacket", "pants"}, m \in MeasurementInputs}
  \cup {FormInput(g, FullMeasurements, bt) : g \in GarmentTypes \cup {""}, bt \in TextInputs}
  \cup {FormInput(g, m, bt) :
          g \in {"shirt", "pants"}, bt \in TextInputs,
          m \in {ZeroMeasurements, [FullMeasurements EXCEPT !.waist = 0, !.inseam = -1]}}

NoRow ==
  [id |-> NoId, user_id |-> NoUser, status |-> "", garment_type |-> "",
   measurements |-> ZeroMeasurements, budget |-> "", timeline |-> "", details |-> "",
   updated_at |-> ""]

\* ------------------------------------------------------------------- state
VARIABLES
  commissions,  \* the commissions table: id -> row, NoRow where no row exists
  user,         \* auth.user() of each browser, NoUser when signed out
  page,         \* the route component mounted in each browser, with its signals
  lastOp,       \* the store mutation the last step's handler requested (NoOp after any other step)
  messages,     \* the messages table, in insertion order
  chat,         \* the MessageChat component of each browser, with its signals and requests
  channel,      \* each browser's realtime channel 'messages-channel'
  profile       \* the profiles table's measurement columns, each browser's
                \* ProfileMeasurements component, and the save the last step requested

vars == <<commissions, user, page, lastOp, messages, chat, channel, profile>>
lifecycleVars == <<commissions, page, lastOp>>
chatVars == <<messages, chat, channel>>

Routes == {"closed", "create", "edit", "details", "adminDetail", "adminList"}
FetchRoutes == {"edit", "details", "adminDetail", "adminList"}
AdminRoutes == {"adminDetail", "adminList"}

\* The columns of a loaded row that a detail or list page's handlers and guards read.
Held(data) == [id |-> data.id, user_id |-> data.user_id, status |-> data.status]
NoHeld == Held(NoRow)

\* The signals of a freshly constructed component.
InitialPage(route, id) ==
  [route |-> route,
   param |-> id,
   isLoading |-> (route \in FetchRoutes),
   error |-> "",
   commission |-> NoHeld,
   commissions |-> {},
   loadedFor |-> NoUser,
   formData |-> EmptyForm,
   originalStatus |-> "",
   errors |-> {},
   pending |-> {},
   updates |-> {}]

ClosedPage == InitialPage("closed", NoId)

NoOp == [op |-> "none", by |-> NoUser, id |-> NoId, input |-> "", outcome |-> ""]


Exists(id) == id \in CommissionIds /\ commissions[id] # NoRow
Rows == {commissions[i] : i \in {j \in CommissionIds : commissions[j] # NoRow}}

\* ------------------------------------------------------------- validation
ValidateFormFirstOnly(f) ==
  IF f.garmentType = "" THEN {"garmentType"}
  ELSE IF f.budget = "" THEN {"budget"}
  ELSE IF f.timeline = "" THEN {"timeline"}
  ELSE IF f.details = "" THEN {"details"}
  ELSE IF f.garmentType \in {"shirt", "jacket"} /\ f.measurements.chest <= 0
  THEN {"measurements.chest"}
  ELSE IF f.garmentType \in {"shirt", "jacket"} /\ f.measurements.shoulders <= 0
  THEN {"measurements.shoulders"}
  ELSE IF f.garmentType = "pants" /\ f.measurements.waist <= 0 THEN {"measurements.waist"}
  ELSE IF f.garmentType = "pants" /\ f.measurements.hips <= 0 THEN {"measurements.hips"}
  ELSE IF f.garmentType = "pants" /\ f.measurements.length <= 0 THEN {"measurements.length"}
  ELSE IF f.garmentType = "pants" /\ f.measurements.inseam <= 0 THEN {"measurements.inseam"}
  ELSE {}

\* The create page's validateForm: the names of the fields with an error.
ValidateForm(f) ==
  (IF f.garmentType = "" THEN {"garmentType"} ELSE {})
  \cup (IF f.budget = "" THEN {"budget"} ELSE {})
  \cup (IF f.timeline = "" THEN {"timeline"} ELSE {})
  \cup (IF f.details = "" THEN {"details"} ELSE {})
  \cup (IF f.garmentType \in {"shirt", "jacket"}
        THEN (IF f.measurements.chest <= 0 THEN {"measurements.chest"} ELSE {})
             \cup (IF f.measurements.shoulders <= 0 THEN {"measurements.shoulders"} ELSE {})
        ELSE IF f.garmentType = "pants"
        THEN (IF f.measurements.waist <= 0 THEN {"measurements.waist"} ELSE {})
             \cup (IF f.measurements.hips <= 0 THEN {"measurements.hips"} ELSE {})
             \cup (IF f.measurements.length <= 0 THEN {"measurements.length"} ELSE {})
             \cup (IF f.measurements.inseam <= 0 THEN {"measurements.inseam"} ELSE {})
        ELSE {})

EditValidateFormNoInseam(f) ==
  (IF f.garmentType = "" THEN {"garmentType"} ELSE {})
  \cup (IF f.budget = "" THEN {"budget"} ELSE {})
  \cup (IF f.timeline = "" THEN {"timeline"} ELSE {})
  \cup (IF f.details = "" THEN {"details"} ELSE {})
  \cup (IF f.garmentType \in {"shirt", "jacket"}
        THEN (IF f.measurements.chest <= 0 THEN {"measurements.chest"} ELSE {})
             \cup (IF f.measurements.shoulders <= 0 THEN {"measurements.shoulders"} ELSE {})
        ELSE IF f.garmentType = "pants"
        THEN (IF f.measurements.waist <= 0 THEN {"measurements.waist"} ELSE {})
             \cup (IF f.measurements.hips <= 0 THEN {"measurements.hips"} ELSE {})
             \cup (IF f.measurements.length <= 0 THEN {"measurements.length"} ELSE {})
        ELSE {})

\* The edit page's own validateForm.
EditValidateForm(f) ==
  (IF f.garmentType = "" THEN {"garmentType"} ELSE {})
  \cup (IF f.budget = "" THEN {"budget"} ELSE {})
  \cup (IF f.timeline = "" THEN {"timeline"} ELSE {})
  \cup (IF f.details = "" THEN {"details"} ELSE {})
  \cup (IF f.garmentType \in {"shirt", "jacket"}
        THEN (IF f.measurements.chest <= 0 THEN {"measurements.chest"} ELSE {})
             \cup (IF f.measurements.shoulders <= 0 THEN {"measurements.shoulders"} ELSE {})
        ELSE IF f.garmentType = "pants"
        THEN (IF f.measurements.waist <= 0 THEN {"measurements.waist"} ELSE {})
             \cup (IF f.measurements.hips <= 0 THEN {"measurements.hips"} ELSE {})
             \cup (IF f.measurements.length <= 0 THEN {"measurements.length"} ELSE {})
             \cup (IF f.measurements.inseam <= 0 THEN {"measurements.inseam"} ELSE {})
        ELSE {})

\* ------------------------------------------------------- access decisions
IsAdminAnyone(u) == TRUE

IsAdmin(u) == u = ADMIN_ID

OwnsCommissionAnyone(data, userId) == TRUE

OwnsCommission(data, userId) == data.user_id = userId

IsEditable(data) == ToLowerCase(data.status) = "pending"

\* The owner page's Cancel button is rendered enabled.
CancelEnabled(c) == ~(c.status = "Cancelled" \/ c.status = "Completed")

\* A page section under <Show when={!isLoading() && !error() ...}>.
Shown(p) == ~p.isLoading /\ p.error = ""

\* ------------------------------------------------------------ store rows
FreeIds == {i \in CommissionIds : commissions[i] = NoRow}
NextId == CHOOSE i \in FreeIds : \A j \in FreeIds : i <= j

\* update(patch).eq('id', id): the columns the patch names are overwritten.
\* updated_at is kept relative to the row's latest write: "now" is the time of
\* that write (new Date().toISOString() in the patch, or the column's value at
\* insert); a write that leaves the column alone leaves it at an "earlier" time.
ApplyPatch(row, patch) ==
  [k \in DOMAIN row |->
     IF k \in DOMAIN patch THEN patch[k]
     ELSE IF k = "updated_at" THEN "earlier"
     ELSE row[k]]

UpdateWhereId(id, patch) ==
  IF Exists(id) THEN [commissions EXCEPT ![id] = ApplyPatch(@, patch)] ELSE commissions

RowAt(id) == IF id \in CommissionIds THEN commissions[id] ELSE NoRow

HandleSubmitDataKeepsStatus(f, userId) == [f EXCEPT !.user_id = userId]

\* handleSubmit: the form, with the status and the owner it forces.
HandleSubmitData(f, userId) == [f EXCEPT !.status = "Pending", !.user_id = userId]

\* submitCommission: the column values of the inserted row.
SubmitCommissionRow(data, id) ==
  [id |-> id, user_id |-> data.user_id, status |-> data.status,
   garment_type |-> data.garmentType, measurements |-> data.measurements,
   budget |-> data.budget, timeline |-> data.timeline, details |-> data.details,
   updated_at |-> "now"]

\* updateCommission: the patch the edit form sends.
UpdateSubmissionData(f, originalStatus) ==
  [garment_type |-> f.garmentType, measurements |-> f.measurements,
   budget |-> f.budget, timeline |-> f.timeline, details |-> f.details,
   status |-> originalStatus]

CancelPatch == [status |-> "Cancelled"]

\* updateCommissionStatus: the patch of both admin pages.
StatusPatch(newStatus) == [status |-> newStatus, updated_at |-> "now"]

\* fetchCommission: database columns to form fields.
FormOf(data) ==
  [_id |-> data.id, status |-> data.status, garmentType |-> data.garment_type,
   measurements |-> data.measurements, budget |-> data.budget,
   timeline |-> data.timeline, details |-> data.details, user_id |-> data.user_id]

\* ------------------------------------------------- mounting and fetching
\* The synchronous part of a route's fetch function, up to its first await.
FetchBegin(p, u) ==
  LET q == [p EXCEPT !.isLoading = TRUE, !.error = ""] IN
  IF p.route \in AdminRoutes /\ ~IsAdmin(u)
  THEN [q EXCEPT !.error = "permission", !.isLoading = FALSE]
  ELSE [q EXCEPT !.pending = @ \cup {[userId |-> u, id |-> p.param]}]

\* The route's createEffect, run on mount and whenever auth.user() changes.
RunEffect(p, u) ==
  IF p.route = "closed" THEN p
  ELSE IF u = NoUser THEN ClosedPage
  ELSE IF p.route = "create" THEN p
  ELSE FetchBegin(p, u)

\* The user opens a route (a link, the address bar, a back button).
Navigate(b, route, id) ==
  /\ (route \in {"edit", "details", "adminDetail"}) = (id # NoId)
  /\ page' = [page EXCEPT ![b] = RunEffect(InitialPage(route, id), user[b])]
  /\ lastOp' = NoOp
  /\ UNCHANGED <<commissions, user>>
  /\ UNCHANGED chatVars
  /\ UNCHANGED profile

\* The address of a route is loaded afresh: the component is constructed while
\* the AuthProvider is still restoring the session (auth.isLoading() is true and
\* auth.user() is null), so the route's effect does nothing yet.
PageLoad(b, route, id) ==
  /\ user[b] = NoUser
  /\ page[b].route = "closed"
  /\ (route \in {"edit", "details", "adminDetail"}) = (id # NoId)
  /\ page' = [page EXCEPT ![b] = InitialPage(route, id)]
  /\ lastOp' = NoOp
  /\ UNCHANGED <<commissions, user>>
  /\ UNCHANGED chatVars
  /\ UNCHANGED profile

\* onAuthStateChange / signOut: setUser, then the mounted route's effect re-runs.
\* A sign-in (from signed out), a token refresh (the same identity) or a sign-out.
AuthStateChange(b, u) ==
  /\ u # user[b] => NoUser \in {u, user[b]}
  /\ ~(u = NoUser /\ user[b] = NoUser)
  /\ user' = [user EXCEPT ![b] = u]
  /\ page' = [page EXCEPT ![b] = RunEffect(@, u)]
  /\ lastOp' = NoOp
  /\ UNCHANGED commissions
  /\ UNCHANGED chatVars
  /\ UNCHANGED profile

\* What a fetch function does with the store's answer.
FetchResult(p, req) ==
  LET data == RowAt(req.id)
      done == [p EXCEPT !.pending = @ \ {req}, !.isLoading = FALSE]
  IN
  IF p.route = "adminList"
  THEN [done EXCEPT !.commissions = {Held(r) : r \in Rows}, !.loadedFor = req.userId]
  ELSE IF data = NoRow THEN [done EXCEPT !.error = "not_found"]
  ELSE IF p.route = "adminDetail"
  THEN [done EXCEPT !.commission = Held(data), !.loadedFor = req.userId]
  ELSE IF ~OwnsCommission(data, req.userId) THEN [done EXCEPT !.error = "permission"]
  ELSE IF p.route = "details"
  THEN [done EXCEPT !.commission = Held(data), !.loadedFor = req.userId]
  ELSE IF ~IsEditable(data) THEN [done EXCEPT !.error = "status_locked"]
  ELSE [done EXCEPT !.originalStatus = data.status, !.formData = FormOf(data),
                    !.loadedFor = req.userId]

FetchResponse(b, req) ==
  /\ req \in page[b].pending
  /\ page' = [page EXCEPT ![b] = FetchResult(@, req)]
  /\ lastOp' = NoOp
  /\ UNCHANGED <<commissions, user>>
  /\ UNCHANGED chatVars
  /\ UNCHANGED profile

\* ------------------------------------------------------------ the forms
\* handleInputChange / handleSelectChange, as often as it takes to type f.
FillForm(b, f) ==
  LET p == page[b] IN
  /\ \/ p.route = "create"
     \/ p.route = "edit" /\ Shown(p)
  /\ page' = [page EXCEPT ![b].formData =
       [@ EXCEPT !.garmentType = f.garmentType, !.measurements = f.measurements,
                 !.budget = f.budget, !.timeline = f.timeline, !.details = f.details,
                 !.status = IF p.route = "create" THEN f.status ELSE @]]
  /\ lastOp' = NoOp
  /\ UNCHANGED <<commissions, user>>
  /\ UNCHANGED chatVars
  /\ UNCHANGED profile

Op(name, b, id, input, outcome) ==
  [op |-> name, by |-> user[b], id |-> id, input |-> input, outcome |-> outcome]

\* commissions.tsx handleSubmit, with submitCommission.
HandleSubmit(b, ok) ==
  LET p == page[b]
      f == p.formData
      errs == ValidateForm(f)
      row == SubmitCommissionRow(HandleSubmitData(f, user[b]), NextId)
  IN
  /\ p.route = "create"
  /\ (errs = {} /\ user[b] # NoUser /\ ok) => FreeIds # {}
  /\ IF errs # {}
     THEN /\ page' = [page EXCEPT ![b].errors = errs]
          /\ lastOp' = Op("create", b, NoId, f.status, "ValidationError")
          /\ UNCHANGED commissions
     ELSE IF user[b] = NoUser
     THEN /\ page' = [page EXCEPT ![b] = ClosedPage]
          /\ lastOp' = Op("create", b, NoId, f.status, "AuthError")
          /\ UNCHANGED commissions
     ELSE IF ~ok
     THEN /\ page' = [page EXCEPT ![b].errors = {}]
          /\ lastOp' = Op("create", b, NoId, f.status, "StoreError")
          /\ UNCHANGED commissions
     ELSE /\ commissions' = [commissions EXCEPT ![NextId] = row]
          /\ page' = [page EXCEPT ![b] = ClosedPage]
          /\ lastOp' = Op("create", b, NextId, f.status, "ok")
  /\ UNCHANGED user
  /\ UNCHANGED chatVars
  /\ UNCHANGED profile

\* profile/orders/edit/[id].tsx updateCommission.
UpdateCommission(b, ok) ==
  LET p == page[b]
      f == p.formData
      errs == EditValidateForm(f)
      after == UpdateWhereId(f._id, UpdateSubmissionData(f, p.originalStatus))
  IN
  /\ p.route = "edit"
  /\ Shown(p)
  /\ IF errs # {}
     THEN /\ page' = [page EXCEPT ![b].errors = errs]
          /\ lastOp' = Op("update", b, f._id, "", "ValidationError")
          /\ UNCHANGED commissions
     ELSE IF user[b] = NoUser
     THEN /\ page' = [page EXCEPT ![b] = ClosedPage]
          /\ lastOp' = Op("update", b, f._id, "", "AuthError")
          /\ UNCHANGED commissions
     ELSE IF ~ok
     THEN /\ page' = [page EXCEPT ![b].errors = {}]
          /\ lastOp' = Op("update", b, f._id, "", "StoreError")
          /\ UNCHANGED commissions
     ELSE /\ commissions' = after
          /\ page' = [page EXCEPT ![b] = RunEffect(InitialPage("details", f._id), user[b])]
          /\ lastOp' = Op("update", b, f._id, "", "ok")
  /\ UNCHANGED user
  /\ UNCHANGED chatVars
  /\ UNCHANGED profile

LocalStatusOptimistic(c, newStatus, ok) == [c EXCEPT !.status = newStatus]

\* After the awaited update: if (error) throw, else the local copy takes the
\* new status.
LocalStatus(c, newStatus, ok) == IF ok THEN [c EXCEPT !.status = newStatus] ELSE c

\* The owner detail page's cancelCommission, behind its Cancel button.
CancelCommission(b, ok) ==
  LET p == page[b]
      id == p.commission.id
      after == UpdateWhereId(id, CancelPatch)
  IN
  /\ p.route = "details"
  /\ Shown(p)
  /\ p.commission # NoHeld
  /\ CancelEnabled(p.commission)
  /\ commissions' = IF ok THEN after ELSE commissions
  /\ page' = [page EXCEPT ![b].commission = LocalStatus(@, "Cancelled", ok)]
  /\ lastOp' = Op("cancel", b, id, "", IF ok THEN "ok" ELSE "StoreError")
  /\ UNCHANGED user
  /\ UNCHANGED chatVars
  /\ UNCHANGED profile

\* admin/orders/[id].tsx updateCommissionStatus, behind the status dropdown.
AdminDetailUpdateStatus(b, newStatus, ok) ==
  LET p == page[b]
      id == p.commission.id
      after == UpdateWhereId(id, StatusPatch(newStatus))
  IN
  /\ p.route = "adminDetail"
  /\ Shown(p)
  /\ p.commission # NoHeld
  /\ commissions' = IF ok THEN after ELSE commissions
  /\ page' = [page EXCEPT ![b].commission = LocalStatus(@, newStatus, ok)]
  /\ lastOp' = Op("transitionDetail", b, id, newStatus, IF ok THEN "ok" ELSE "StoreError")
  /\ UNCHANGED user
  /\ UNCHANGED chatVars
  /\ UNCHANGED profile

\* The admin list page's updateCommissionStatus, behind a row's status dropdown,
\* up to its await: the store takes the update (or refuses it) and the answer
\* is on its way back.  Nothing disables the dropdown meanwhile.
AdminListUpdateStatus(b, id, newStatus, ok) ==
  LET p == page[b]
      after == UpdateWhereId(id, StatusPatch(newStatus))
  IN
  /\ p.route = "adminList"
  /\ Shown(p)
  /\ \E c \in p.commissions : c.id = id
  /\ Cardinality(p.updates) < MaxUpdates
  /\ commissions' = IF ok THEN after ELSE commissions
  /\ page' = [page EXCEPT ![b].updates =
       @ \cup {[id |-> id, status |-> newStatus, ok |-> ok]}]
  /\ lastOp' = Op("transitionList", b, id, newStatus, IF ok THEN "ok" ELSE "StoreError")
  /\ UNCHANGED user
  /\ UNCHANGED chatVars
  /\ UNCHANGED profile

\* The list page's updateCommissionStatus after its await: the answers come
\* back in any order; each sets the row's local status, or raises the toast.
AdminListUpdateResponse(b, r) ==
  /\ r \in page[b].updates
  /\ page' = [page EXCEPT
       ![b].updates = @ \ {r},
       ![b].commissions = {IF c.id = r.id THEN LocalStatus(c, r.status, r.ok) ELSE c : c \in @}]
  /\ lastOp' = Op("transitionListDone", b, r.id, r.status, IF r.ok THEN "ok" ELSE "StoreError")
  /\ UNCHANGED <<commissions, user>>
  /\ UNCHANGED chatVars
  /\ UNCHANGED profile

\* ------------------------------------------------------------- messaging
\* MessageChat's signals.  messages holds the ids of the listed rows; fetches are
\* the fetchMessages calls in flight (orphaned once their component is gone);
\* sent is the row an awaited insert has stored and not yet answered.
NoChat ==
  [mounted |-> FALSE, messages |-> <<>>, isLoading |-> TRUE, isSending |-> FALSE,
   error |-> "", fetches |-> {}, sent |-> NoId]

\* The browser's channel: live once joined, with the insert events on their way
\* to its handler and the payloads the handler accepted, in order.
\* subscriber and since record who joined it and how many rows were stored then.
NoChannel ==
  [live |-> FALSE, subscriber |-> NoUser, since |-> 0, queue |-> <<>>, delivered |-> <<>>]

ChatCommission == 1
ChatUsers == [b1 |-> "alice", b2 |-> ADMIN_ID]

MessageInputs == {"hello", "   "}

TrimNothing(s) == s

\* String.prototype.trim on the inputs above.
Trim(s) == IF s = "   " THEN "" ELSE s

Range(seq) == {seq[i] : i \in DOMAIN seq}
Count(seq, x) == Cardinality({i \in DOMAIN seq : seq[i] = x})
Ids(rows) == [i \in DOMAIN rows |-> rows[i].id]
Message(id) == messages[id]

GetCurrentUserIdGuest(b) == IF user[b] = NoUser THEN "guest" ELSE user[b]

\* getCurrentUserId
GetCurrentUserId(b) == user[b]

\* select('*').eq('commission_id', id): the rows of the thread.
SelectMessages(cid) == SelectSeq(messages, LAMBDA m : m.commission_id = cid)

\* .order('created_at', {ascending: true}): the orders the store may return, any
\* arrangement of the rows in which created_at never decreases (rows with equal
\* stamps come in the order the store happens to read them).
OrderByCreatedAt(rows) ==
  LET n == Len(rows) IN
  {[i \in 1..n |-> rows[p[i]]] :
     p \in {q \in [1..n -> 1..n] :
              /\ \A i, j \in 1..n : i # j => q[i] # q[j]
              /\ \A i \in 1..n : \A j \in 1..n :
                   i < j => rows[q[i]].created_at <= rows[q[j]].created_at}}

\* created_at defaults to the store's clock, which never runs backwards and may
\* give two inserts the same reading.
ClockReadings ==
  IF messages = <<>> THEN {1}
  ELSE {messages[Len(messages)].created_at, Len(messages) + 1}

\* The handler's and fetchMessages' test for a message to take and mark read.
FromOther(senderId, currentUserId) == senderId # currentUserId

MarkReadToggles(rows, ids) ==
  [i \in DOMAIN rows |-> IF rows[i].id \in ids THEN [rows[i] EXCEPT !.read = ~@] ELSE rows[i]]

\* update({read: true}).eq('id', id) for every id of the set.
MarkRead(rows, ids) ==
  [i \in DOMAIN rows |-> IF rows[i].id \in ids THEN [rows[i] EXCEPT !.read = TRUE] ELSE rows[i]]

\* fetchMessages up to its await.
BeginFetch(c) ==
  [c EXCEPT !.isLoading = TRUE, !.error = "",
            !.fetches = @ \cup {[answered |-> FALSE, data |-> <<>>, orphan |-> FALSE,
                                 error |-> ""]}]

\* setupMessageSubscription: the channel is joined (or the feed is unavailable).
Subscribe(ch, u, joined) ==
  IF ch.live THEN [ch EXCEPT !.subscriber = u]
  ELSE [live |-> joined, subscriber |-> u, since |-> Len(messages), queue |-> <<>>,
        delivered |-> <<>>]

\* The component is disposed: the value the effect returned is not a cleanup, so
\* nothing is unsubscribed and the requests in flight still come back.
Dispose(c) == [NoChat EXCEPT !.fetches = {[f EXCEPT !.orphan = TRUE] : f \in c.fetches}]

\* A page with the chat is opened: the component is constructed and its effect runs.
ChatMount(b, joined) ==
  /\ ~chat[b].mounted
  /\ IF user[b] # NoUser
     THEN /\ Cardinality(chat[b].fetches) < MaxFetches
          /\ chat' = [chat EXCEPT ![b] = BeginFetch([Dispose(@) EXCEPT !.mounted = TRUE])]
          /\ channel' = [channel EXCEPT ![b] = Subscribe(@, user[b], joined)]
     ELSE /\ chat' = [chat EXCEPT ![b] = [Dispose(@) EXCEPT !.mounted = TRUE]]
          /\ UNCHANGED channel
  /\ UNCHANGED <<user, messages>>
  /\ UNCHANGED lifecycleVars
  /\ UNCHANGED profile

\* The user leaves the page.
ChatTeardown(b) ==
  /\ chat[b].mounted
  /\ chat' = [chat EXCEPT ![b] = Dispose(@)]
  /\ UNCHANGED <<user, messages, channel>>
  /\ UNCHANGED lifecycleVars
  /\ UNCHANGED profile

\* onAuthStateChange with a session: a mounted component's effect re-runs.
ChatSignIn(b, joined) ==
  /\ user[b] = NoUser
  /\ user' = [user EXCEPT ![b] = ChatUsers[b]]
  /\ IF chat[b].mounted
     THEN /\ Cardinality(chat[b].fetches) < MaxFetches
          /\ chat' = [chat EXCEPT ![b] = BeginFetch(@)]
          /\ channel' = [channel EXCEPT ![b] = Subscribe(@, ChatUsers[b], joined)]
     ELSE UNCHANGED <<chat, channel>>
  /\ UNCHANGED messages
  /\ UNCHANGED lifecycleVars
  /\ UNCHANGED profile

\* signOut: setUser(null); the page's effect navigates to /login.
ChatSignOut(b) ==
  /\ user[b] # NoUser
  /\ user' = [user EXCEPT ![b] = NoUser]
  /\ chat' = [chat EXCEPT ![b] = Dispose(@)]
  /\ UNCHANGED <<messages, channel>>
  /\ UNCHANGED lifecycleVars
  /\ UNCHANGED profile

\* onAuthStateChange with the same identity (a token refresh): the effect re-runs.
ChatTokenRefresh(b, joined) ==
  /\ user[b] # NoUser
  /\ chat[b].mounted
  /\ Cardinality(chat[b].fetches) < MaxFetches
  /\ chat' = [chat EXCEPT ![b] = BeginFetch(@)]
  /\ channel' = [channel EXCEPT ![b] = Subscribe(@, user[b], joined)]
  /\ UNCHANGED <<user, messages>>
  /\ UNCHANGED lifecycleVars
  /\ UNCHANGED profile

\* The store answers a fetchMessages select.
ChatFetchAnswer(b, f, ok) ==
  /\ f \in chat[b].fetches
  /\ ~f.answered
  /\ IF ok
     THEN \E data \in OrderByCreatedAt(SelectMessages(ChatCommission)) :
            chat' = [chat EXCEPT ![b].fetches =
              (@ \ {f}) \cup {[f EXCEPT !.answered = TRUE, !.data = Ids(data)]}]
     ELSE chat' = [chat EXCEPT ![b].fetches =
            (@ \ {f}) \cup {[f EXCEPT !.answered = TRUE, !.error = "store error"]}]
  /\ UNCHANGED <<user, messages, channel>>
  /\ UNCHANGED lifecycleVars
  /\ UNCHANGED profile

\* fetchMessages after its await: setMessages, then the unread rows of others are marked read.
ChatFetchResponse(b, f) ==
  /\ f \in chat[b].fetches
  /\ f.answered
  /\ chat' = [chat EXCEPT ![b] =
       IF f.orphan THEN [@ EXCEPT !.fetches = @ \ {f}]
       ELSE IF f.error # "" THEN [@ EXCEPT !.fetches = @ \ {f}, !.error = f.error,
                                           !.isLoading = FALSE]
       ELSE [@ EXCEPT !.fetches = @ \ {f}, !.messages = f.data, !.isLoading = FALSE]]
  /\ messages' = MarkRead(messages,
       {id \in Range(f.data) : FromOther(Message(id).sender_id, GetCurrentUserId(b))})
  /\ UNCHANGED <<user, channel>>
  /\ UNCHANGED lifecycleVars
  /\ UNCHANGED profile

\* sendMessage up to its await: the row is inserted, and the feed carries the
\* insert to every live channel.  lastOp keeps what the call reported: nothing
\* when it returned at the empty-content test ("ignored"), the toast of its
\* catch ("AuthError"), or nothing with the row stored ("ok").
ChatSend(b, content, now) ==
  LET id == Len(messages) + 1
      row == [id |-> id, commission_id |-> ChatCommission, sender_id |-> GetCurrentUserId(b),
              content |-> Trim(content), read |-> FALSE, created_at |-> now]
  IN
  /\ now \in ClockReadings
  /\ chat[b].mounted
  /\ ~chat[b].isSending
  /\ IF Trim(content) = ""
     THEN /\ lastOp' = Op("send", b, ChatCommission, content, "ignored")
          /\ UNCHANGED <<messages, chat, channel>>
     ELSE IF GetCurrentUserId(b) = NoUser
     THEN /\ lastOp' = Op("send", b, ChatCommission, content, "AuthError")
          /\ UNCHANGED <<messages, chat, channel>>
     ELSE /\ Len(messages) < MaxMessages
          /\ messages' = Append(messages, row)
          /\ channel' = [x \in Browsers |->
               IF channel[x].live THEN [channel[x] EXCEPT !.queue = Append(@, id)]
               ELSE channel[x]]
          /\ chat' = [chat EXCEPT ![b].isSending = TRUE, ![b].sent = id]
          /\ lastOp' = Op("send", b, ChatCommission, content, "ok")
  /\ UNCHANGED <<user, commissions, page>>
  /\ UNCHANGED profile

\* sendMessage after its await: the stored row is appended to the list.
ChatSendResponse(b) ==
  /\ chat[b].sent # NoId
  /\ chat' = [chat EXCEPT ![b].messages = Append(@, chat[b].sent),
                          ![b].isSending = FALSE, ![b].sent = NoId]
  /\ UNCHANGED <<user, messages, channel>>
  /\ UNCHANGED lifecycleVars
  /\ UNCHANGED profile

\* The channel's postgres_changes handler receives an insert.
ChatDeliver(b) ==
  LET id == Head(channel[b].queue)
      take == FromOther(Message(id).sender_id, GetCurrentUserId(b))
  IN
  /\ channel[b].live
  /\ channel[b].queue # <<>>
  /\ channel' = [channel EXCEPT ![b].queue = Tail(@),
                                ![b].delivered = IF take THEN Append(@, id) ELSE @]
  /\ chat' = [chat EXCEPT ![b].messages =
       IF take /\ chat[b].mounted THEN Append(@, id) ELSE @]
  /\ messages' = IF take THEN MarkRead(messages, {id}) ELSE messages
  /\ UNCHANGED user
  /\ UNCHANGED lifecycleVars
  /\ UNCHANGED profile

\* --------------------------------------------------- measurement profile
MeasurementNames == {"chest", "waist", "hips", "length", "inseam", "shoulders"}

\* A column that holds no value, and one that holds v.
Null == {}
Some(v) == {v}

\* JSON.stringify of an object of numbers: its own keys with their values, in
\* the order the object lists them; '{}' for the empty object.
KeyOrder == <<"chest", "waist", "hips", "length", "inseam", "shoulders">>
JsonStringify(obj) ==
  LET keys == SelectSeq(KeyOrder, LAMBDA k : k \in DOMAIN obj)
  IN [i \in DOMAIN keys |-> <<keys[i], obj[keys[i]]>>]

\* JSON.parse of such a text.
JsonParse(text) ==
  [k \in {text[i][1] : i \in DOMAIN text} |->
     (CHOOSE pair \in Range(text) : pair[1] = k)[2]]

\* A profiles row: the measurements column (a JSON text or null) and the six
\* columns chest .. shoulders.
NoProfileRow ==
  [measurements |-> Null, columns |-> [k \in MeasurementNames |-> Null]]

\* ProfileMeasurements' signals.
NoView ==
  [mounted |-> FALSE, measurements |-> ZeroMeasurements, error |-> "", successMessage |-> ""]

NoSave == [op |-> "none", by |-> NoUser, fields |-> <<>>, ok |-> FALSE]

ProfileUsers == {"alice", "bob"}

NoProfile ==
  [rows |-> [u \in ProfileUsers |-> NoProfileRow],
   view |-> [b \in Browsers |-> NoView],
   last |-> NoSave]

\* fetchProfileMeasurements: the parsed measurements column, {} when it is empty.
FetchProfileMeasurements(rows, userId) ==
  IF rows[userId].measurements = Null THEN <<>>
  ELSE JsonParse(CHOOSE text \in rows[userId].measurements : TRUE)

\* loadMeasurements: userMeasurements.k || 0 for each of the six fields.
WithDefaults(m) == [k \in MeasurementNames |-> IF k \in DOMAIN m THEN m[k] ELSE 0]

\* saveMeasurements' patch: measurements().k || null for each column.
ColumnsPatch(m) == [k \in MeasurementNames |-> IF m[k] = 0 THEN Null ELSE Some(m[k])]

\* What is typed into the component's number inputs, and the objects a caller
\* hands to saveProfileMeasurements.
ProfileInputNames == {"chest", "waist"}
MeasurementValues == {0, 40}
SaveInputs ==
  {[k \in {"chest"} |-> 40], [k \in {"waist"} |-> 32], FullMeasurements}

\* loadMeasurements, with the store's answer.
LoadMeasurements(v, rows, u) ==
  IF u = NoUser THEN [v EXCEPT !.error = "You must be logged in to view your measurements"]
  ELSE [v EXCEPT !.error = "", !.measurements = WithDefaults(FetchProfileMeasurements(rows, u))]

\* The component's createEffect: it loads once the session is known.
ProfileEffect(v, rows, u) == IF u # NoUser THEN LoadMeasurements(v, rows, u) ELSE v

ProfileSignIn(b, u) ==
  /\ user[b] = NoUser
  /\ user' = [user EXCEPT ![b] = u]
  /\ profile' = [profile EXCEPT
       !.view[b] = IF @.mounted THEN ProfileEffect(@, profile.rows, u) ELSE @,
       !.last = NoSave]
  /\ UNCHANGED lifecycleVars
  /\ UNCHANGED chatVars

ProfileSignOut(b) ==
  /\ user[b] # NoUser
  /\ user' = [user EXCEPT ![b] = NoUser]
  /\ profile' = [profile EXCEPT !.last = NoSave]
  /\ UNCHANGED lifecycleVars
  /\ UNCHANGED chatVars

\* The settings page opens (or closes) its measurements tab.
ProfileMount(b) ==
  /\ ~profile.view[b].mounted
  /\ profile' = [profile EXCEPT
       !.view[b] = ProfileEffect([NoView EXCEPT !.mounted = TRUE], profile.rows, user[b]),
       !.last = NoSave]
  /\ UNCHANGED user
  /\ UNCHANGED lifecycleVars
  /\ UNCHANGED chatVars

ProfileUnmount(b) ==
  /\ profile.view[b].mounted
  /\ profile' = [profile EXCEPT !.view[b] = NoView, !.last = NoSave]
  /\ UNCHANGED user
  /\ UNCHANGED lifecycleVars
  /\ UNCHANGED chatVars

\* ProfileMeasurements handleInputChange.
ProfileInput(b, name, value) ==
  /\ profile.view[b].mounted
  /\ profile' = [profile EXCEPT !.view[b].measurements[name] = value, !.last = NoSave]
  /\ UNCHANGED user
  /\ UNCHANGED lifecycleVars
  /\ UNCHANGED chatVars

\* ProfileMeasurements saveMeasurements: the six columns are written; the
\* store's error is read into profileError and not looked at.
SaveMeasurements(b, ok) ==
  LET v == profile.view[b]
      u == user[b]
  IN
  /\ v.mounted
  /\ IF u = NoUser
     THEN profile' = [profile EXCEPT
            !.view[b].error = "You must be logged in to save measurements",
            !.last = [op |-> "saveMeasurements", by |-> NoUser, fields |-> v.measurements,
                      ok |-> FALSE]]
     ELSE /\ u \in ProfileUsers
          /\ profile' = [profile EXCEPT
               !.rows[u].columns = IF ok THEN ColumnsPatch(v.measurements) ELSE @,
               !.view[b].error = "",
               !.view[b].successMessage = "Your measurements have been saved successfully",
               !.last = [op |-> "saveMeasurements", by |-> u, fields |-> v.measurements,
                         ok |-> ok]]
  /\ UNCHANGED user
  /\ UNCHANGED lifecycleVars
  /\ UNCHANGED chatVars

\* saveProfileMeasurements(userId, measurements): the measurements column is
\* overwritten with the JSON text of the object handed in.
SaveProfileMeasurements(userId, m, ok) ==
  /\ profile' = [profile EXCEPT
       !.rows[userId].measurements = IF ok THEN Some(JsonStringify(m)) ELSE @,
       !.last = [op |-> "saveProfileMeasurements", by |-> userId, fields |-> m, ok |-> ok]]
  /\ UNCHANGED user
  /\ UNCHANGED lifecycleVars
  /\ UNCHANGED chatVars

\* settings.tsx handleDeleteMeasurements with deleteMeasurementData: the
\* measurements column becomes '{}' and the page is reloaded.
DeleteMeasurementData(b, ok) ==
  LET rows == [profile.rows EXCEPT ![user[b]].measurements = Some(JsonStringify(<<>>))] IN
  /\ user[b] \in ProfileUsers
  /\ profile.view[b].mounted
  /\ profile' =
       IF ok
       THEN [profile EXCEPT
              !.rows = rows,
              !.view[b] = ProfileEffect([NoView EXCEPT !.mounted = TRUE], rows, user[b]),
              !.last = [op |-> "deleteMeasurementData", by |-> user[b], fields |-> <<>>,
                        ok |-> TRUE]]
       ELSE [profile EXCEPT
              !.last = [op |-> "deleteMeasurementData", by |-> user[b], fields |-> <<>>,
                        ok |-> FALSE]]
  /\ UNCHANGED user
  /\ UNCHANGED lifecycleVars
  /\ UNCHANGED chatVars

\* ------------------------------------------------------- specification
Init ==
  /\ commissions = [i \in CommissionIds |-> NoRow]
  /\ user = [b \in Browsers |-> NoUser]
  /\ page = [b \in Browsers |-> ClosedPage]

  /\ lastOp = NoOp
  /\ messages = <<>>
  /\ chat = [b \in Browsers |-> NoChat]
  /\ channel = [b \in Browsers |-> NoChannel]
  /\ profile = NoProfile

Next ==
  \E b \in Browsers :
    \/ \E u \in SignIns[b] \cup {NoUser} : AuthStateChange(b, u)
    \/ \E r \in Visits[b], id \in CommissionIds \cup {NoId} : Navigate(b, r, id)
    \/ \E req \in page[b].pending : FetchResponse(b, req)
    \/ \E f \in FormInputs : FillForm(b, f)
    \/ \E ok \in BOOLEAN : HandleSubmit(b, ok)
    \/ \E ok \in BOOLEAN : UpdateCommission(b, ok)
    \/ \E ok \in BOOLEAN : CancelCommission(b, ok)
    \/ \E s \in DetailStatuses, ok \in BOOLEAN : AdminDetailUpdateStatus(b, s, ok)
    \/ \E id \in CommissionIds, s \in ListStatuses, ok \in BOOLEAN :
         page[b].updates = {} /\ AdminListUpdateStatus(b, id, s, ok)
    \/ \E r \in page[b].updates : AdminListUpdateResponse(b, r)

Spec == Init /\ [][Next]_vars

\* The messaging of one commission: alice, its owner, in b1 and the admin in b2.
ChatInit ==
  /\ commissions = [i \in CommissionIds |-> NoRow]
  /\ user = [b \in Browsers |-> NoUser]
  /\ page = [b \in Browsers |-> ClosedPage]
  /\ lastOp = NoOp
  /\ messages = <<>>
  /\ chat = [b \in Browsers |-> NoChat]
  /\ channel = [b \in Browsers |-> NoChannel]
  /\ profile = NoProfile

ChatNext ==
  \E b \in Browsers :
       \/ ChatSignIn(b, FALSE)
       \/ ChatSignOut(b)
       \/ \E joined \in BOOLEAN : user[b] # NoUser /\ ChatMount(b, joined)
       \/ \E joined \in BOOLEAN : ChatTokenRefresh(b, joined)
       \/ ChatTeardown(b)
       \/ \E f \in chat[b].fetches : ChatFetchAnswer(b, f, TRUE)
       \/ \E f \in chat[b].fetches : ChatFetchResponse(b, f)
       \/ ChatSend(b, "hello", Len(messages) + 1)
       \/ ChatSendResponse(b)
       \/ ChatDeliver(b)

ChatSpec == ChatInit /\ [][ChatNext]_vars

\* The store answers every request and the feed hands over every event it has
\* queued; nothing obliges the user or the session to act again.
ChatFairness ==
  \A b \in Browsers :
    /\ WF_vars(\E f \in chat[b].fetches : ChatFetchAnswer(b, f, TRUE))
    /\ WF_vars(\E f \in chat[b].fetches : ChatFetchResponse(b, f))
    /\ WF_vars(ChatSendResponse(b))
    /\ WF_vars(ChatDeliver(b))

ChatFairSpec == ChatSpec /\ ChatFairness

\* Posting and listing alone, with a store clock that may give two inserts the
\* same reading.
ListNext ==
  \E b \in Browsers :
       \/ ChatSignIn(b, FALSE)
       \/ user[b] # NoUser /\ ChatMount(b, FALSE)
       \/ ChatTeardown(b)
       \/ \E f \in chat[b].fetches : ChatFetchAnswer(b, f, TRUE)
       \/ \E f \in chat[b].fetches : ChatFetchResponse(b, f)
       \/ \E now \in ClockReadings : ChatSend(b, "hello", now)
       \/ ChatSendResponse(b)

ListSpec == ChatInit /\ [][ListNext]_vars

\* The chat as any visitor meets it: it may be mounted before the session is
\* known, anything may be typed and sent, and the store may refuse a listing.
SendNext ==
  \E b \in Browsers :
       \/ ChatSignIn(b, FALSE)
       \/ ChatSignOut(b)
       \/ ChatMount(b, FALSE)
       \/ ChatTeardown(b)
       \/ \E f \in chat[b].fetches, ok \in BOOLEAN : ChatFetchAnswer(b, f, ok)
       \/ \E f \in chat[b].fetches : ChatFetchResponse(b, f)
       \/ \E content \in MessageInputs : ChatSend(b, content, Len(messages) + 1)
       \/ ChatSendResponse(b)

SendSpec == ChatInit /\ [][SendNext]_vars

\* One customer filling in the create form and the edit form in every way.
FormNext ==
  \/ AuthStateChange("b1", "alice")
  \/ \E r \in {"create", "edit"}, id \in CommissionIds \cup {NoId} : Navigate("b1", r, id)
  \/ \E req \in page["b1"].pending : FetchResponse("b1", req)
  \/ \E f \in ValidationInputs : FillForm("b1", f)
  \/ \E ok \in BOOLEAN : HandleSubmit("b1", ok)
  \/ \E ok \in BOOLEAN : UpdateCommission("b1", ok)

FormSpec == Init /\ [][FormNext]_vars

\* One customer's measurement profile, edited from one browser and saved
\* through saveProfileMeasurements.
ProfileNext ==
  \/ ProfileSignIn("b1", "alice")
  \/ ProfileSignOut("b1")
  \/ ProfileMount("b1")
  \/ ProfileUnmount("b1")
  \/ \E name \in ProfileInputNames, value \in MeasurementValues : ProfileInput("b1", name, value)
  \/ \E ok \in BOOLEAN : SaveMeasurements("b1", ok)
  \/ \E ok \in BOOLEAN : DeleteMeasurementData("b1", ok)
  \/ \E m \in SaveInputs, ok \in BOOLEAN : SaveProfileMeasurements("alice", m, ok)

ProfileSpec == Init /\ [][ProfileNext]_vars

\* The three forms that write to the store, each met with and without a
\* session: browser b1 shows the commission form or the settings page (one
\* route at a time), browser b2 the chat.
OnForm(b) == ~profile.view[b].mounted
OnSettings(b) == page[b].route = "closed"

WriteNext ==
  \/ OnForm("b1") /\ PageLoad("b1", "create", NoId)
  \/ \E u \in {"alice", NoUser} : OnForm("b1") /\ AuthStateChange("b1", u)
  \/ \E f \in FormInputs : FillForm("b1", f)
  \/ \E ok \in BOOLEAN : HandleSubmit("b1", ok)
  \/ OnSettings("b1") /\ ProfileSignIn("b1", "alice")
  \/ OnSettings("b1") /\ ProfileSignOut("b1")
  \/ OnSettings("b1") /\ ProfileMount("b1")
  \/ ProfileUnmount("b1")
  \/ \E value \in MeasurementValues : ProfileInput("b1", "chest", value)
  \/ \E ok \in BOOLEAN : SaveMeasurements("b1", ok)
  \/ ChatSignIn("b2", FALSE)
  \/ ChatSignOut("b2")
  \/ ChatMount("b2", FALSE)
  \/ \E f \in chat["b2"].fetches : ChatFetchAnswer("b2", f, TRUE)
  \/ \E f \in chat["b2"].fetches : ChatFetchResponse("b2", f)
  \/ ChatSend("b2", "hello", Len(messages) + 1)
  \/ ChatSendResponse("b2")

WriteSpec == Init /\ [][WriteNext]_vars

\* The admin list page at work on the commissions a customer has created, with
\* up to MaxUpdates status updates under way at once.
UpdateNext ==
  \/ AuthStateChange("b1", "alice")
  \/ Navigate("b1", "create", NoId)
  \/ \E f \in FormInputs : FillForm("b1", f)
  \/ HandleSubmit("b1", TRUE)
  \/ AuthStateChange("b2", ADMIN_ID)
  \/ Navigate("b2", "adminList", NoId)
  \/ \E req \in page["b2"].pending : FetchResponse("b2", req)
  \/ \E id \in CommissionIds, s \in ListStatuses, ok \in BOOLEAN :
       AdminListUpdateStatus("b2", id, s, ok)
  \/ \E r \in page["b2"].updates : AdminListUpdateResponse("b2", r)

UpdateSpec == Init /\ [][UpdateNext]_vars

\* ----------------------------------------------------------------- claims
\* C1: an owner's content update applied while the stored status is not Pending
\* is rejected and changes nothing in the stored record.
C1_UpdateRejectedUnlessPending ==
  [][(lastOp'.op = "update" /\ ToLowerCase(RowAt(lastOp'.id).status) # "pending")
       => (lastOp'.outcome # "ok" /\ commissions' = commissions)]_vars

\* C2: immediately after a successful create the stored status is Pending,
\* whatever status the submitted form carried.
C2_CreatedPending ==
  (lastOp.op = "create" /\ lastOp.outcome = "ok")
    => (Exists(lastOp.id) /\ commissions[lastOp.id].status = "Pending")

C2_Witness ==
  /\ lastOp.op = "create" /\ lastOp.outcome = "ok" /\ lastOp.input = "Completed"
  /\ commissions[lastOp.id].status = "Pending"

\* C3: an owner cancel writes Cancelled only over a stored status of Pending or
\* In Progress.
C3_CancelOnlyOpen ==
  [][(lastOp'.op = "cancel" /\ lastOp'.outcome = "ok")
       => ToLowerCase(RowAt(lastOp'.id).status) \in {"pending", "in progress"}]_vars

C5_UpdateKeepsStatus ==
  [][(lastOp'.op = "update" /\ lastOp'.outcome = "ok" /\ Exists(lastOp'.id))
       => commissions'[lastOp'.id].status = commissions[lastOp'.id].status]_vars

\* C6: every stored status is one of Pending, In Progress, Completed, Cancelled.
C6_StatusInEnum ==
  \A i \in CommissionIds : Exists(i) => commissions[i].status \in {"Pending", "In Progress", "Completed", "Cancelled"}

\* C7: the owner pages hold a record only if its owner is the identity that
\* requested it, and the admin pages hold records only for the admin identity.
C7_LoadedOnlyForOwnerOrAdmin ==
  \A b \in Browsers :
    LET p == page[b] IN
    /\ (p.route = "details" /\ p.commission # NoHeld) => p.commission.user_id = p.loadedFor
    /\ (p.route = "edit" /\ p.formData._id # NoId) => p.formData.user_id = p.loadedFor
    /\ (p.route \in AdminRoutes /\ (p.commission # NoHeld \/ p.commissions # {}))
         => p.loadedFor = ADMIN_ID

C7_Witness ==
  /\ \E b \in Browsers :
       /\ page[b].route = "details" /\ user[b] = "bob" /\ page[b].error = "permission"
       /\ page[b].commission = NoHeld /\ RowAt(page[b].param).user_id = "alice"
  /\ \E b \in Browsers : page[b].route = "adminDetail" /\ page[b].commission # NoHeld

\* C8: a live subscription hands its handler's list each row the other party
\* inserted since it was joined exactly once (counting the inserts still on
\* their way), and never a row its subscriber sent.
C8_OncePerMessageNoEcho ==
  \A b \in Browsers :
    channel[b].live =>
      \A id \in 1..Len(messages) :
        IF Message(id).sender_id = channel[b].subscriber
        THEN Count(channel[b].delivered, id) = 0
        ELSE id > channel[b].since
               => Count(channel[b].delivered, id) + Count(channel[b].queue, id) = 1

\* C9: every stored message eventually is in the list of a viewer who keeps
\* the chat open, whether or not the feed was joined and whenever it was sent.
C9_NoMessageLost ==
  \A b \in Browsers : \A id \in 1..MaxMessages :
    (chat[b].mounted /\ id <= Len(messages))
      ~> (~chat[b].mounted \/ id \in Range(chat[b].messages))

\* C10: a chat that has been torn down has no live subscription, and nothing is
\* delivered or marked read for it from then on.
C10_TeardownCancels ==
  [][\A b \in Browsers :
       (~chat[b].mounted /\ ~chat'[b].mounted)
         => (/\ ~channel'[b].live
             /\ channel'[b].delivered = channel[b].delivered
             /\ (\E f \in chat[b].fetches : f \notin chat'[b].fetches) => messages' = messages)]_vars

\* C11: a stored message keeps its id, commission_id, sender_id, content and
\* created_at, its read flag never goes back to false, and no row disappears.
C11_MessagesImmutable ==
  [][/\ Len(messages') >= Len(messages)
     /\ \A i \in 1..Len(messages) :
          /\ [messages'[i] EXCEPT !.read = FALSE] = [messages[i] EXCEPT !.read = FALSE]
          /\ messages[i].read => messages'[i].read]_vars

C11_Witness ==
  /\ Len(messages) = 2
  /\ messages[1].read /\ ~messages[2].read
  /\ messages[1].sender_id # messages[2].sender_id

\* C12: a step that sets a message's read flag is taken for a session that is
\* signed in as a party of the thread and is not the message's sender.
C12_ReadOnlyByRecipient ==
  [][\A i \in 1..Len(messages) :
       (~messages[i].read /\ messages'[i].read) =>
         \A b \in Browsers :
           (chat'[b].fetches # chat[b].fetches \/ channel'[b].queue # channel[b].queue)
             => (/\ user[b] # NoUser
                 /\ user[b] # messages[i].sender_id
                 /\ user[b] \in {ChatUsers[x] : x \in Browsers})]_vars

\* C13: a listing returns the thread's rows in the order they were posted.
C13_ListedInPostingOrder ==
  \A b \in Browsers : \A f \in chat[b].fetches :
    f.answered => \A i \in 1..Len(f.data) : f.data[i] = i

\* A garment-type-conditional measurement of the form is not positive.
MeasurementRuleBroken(f) ==
  \/ f.garmentType = "pants"
       /\ \E k \in {"waist", "hips", "length", "inseam"} : f.measurements[k] <= 0
  \/ f.garmentType \in {"shirt", "jacket"}
       /\ \E k \in {"chest", "shoulders"} : f.measurements[k] <= 0

\* C14: a create or an owner update of a form that breaks a measurement rule of
\* its garment type ends in a validation error and changes nothing stored.
C14_MeasurementsValidated ==
  [][\A b \in Browsers :
       (/\ lastOp'.op \in {"create", "update"}
        /\ page[b].route = (IF lastOp'.op = "create" THEN "create" ELSE "edit")
        /\ MeasurementRuleBroken(page[b].formData))
         => (lastOp'.outcome = "ValidationError" /\ commissions' = commissions)]_vars

C14_Witness ==
  /\ lastOp.op = "update" /\ lastOp.outcome = "ValidationError"
  /\ page["b1"].formData.garmentType = "pants"
  /\ page["b1"].formData.measurements.inseam <= 0
  /\ \A k \in {"waist", "hips", "length"} : page["b1"].formData.measurements[k] > 0
  /\ page["b1"].formData.budget # "" /\ page["b1"].formData.timeline # ""
  /\ page["b1"].formData.details # ""

\* The measurements a garment type requires, and the form's names for them.
RequiredMeasurements(g) ==
  CASE g \in {"shirt", "jacket"} -> {"chest", "shoulders"}
    [] g = "pants" -> {"waist", "hips", "length", "inseam"}
    [] OTHER -> {}

MeasurementField(k) ==
  CASE k = "chest" -> "measurements.chest"
    [] k = "shoulders" -> "measurements.shoulders"
    [] k = "waist" -> "measurements.waist"
    [] k = "hips" -> "measurements.hips"
    [] k = "length" -> "measurements.length"
    [] k = "inseam" -> "measurements.inseam"

\* The fields of a form that violate their constraint.
ViolatedFields(f) ==
  {k \in {"garmentType", "budget", "timeline", "details"} :
     \/ k = "garmentType" /\ f.garmentType \notin GarmentTypes
     \/ k = "budget" /\ f.budget \notin Budgets
     \/ k = "timeline" /\ f.timeline \notin Timelines
     \/ k = "details" /\ f.details = ""}
  \cup {MeasurementField(k) :
          k \in {j \in RequiredMeasurements(f.garmentType) : f.measurements[j] <= 0}}

\* C15: a create of a form with violated fields fails with a validation error
\* and the errors it reports are exactly the violated fields.
C15_EveryViolatedFieldReported ==
  \A b \in Browsers :
    (lastOp.op = "create" /\ page[b].route = "create"
       /\ ViolatedFields(page[b].formData) # {})
      => (/\ lastOp.outcome = "ValidationError"
          /\ page[b].errors = ViolatedFields(page[b].formData))

C15_Witness ==
  /\ lastOp.op = "create" /\ lastOp.outcome = "ValidationError"
  /\ page["b1"].route = "create"
  /\ {"budget", "details", "measurements.waist", "measurements.inseam"}
       \subseteq page["b1"].errors
  /\ "timeline" \notin page["b1"].errors

\* The Profile page's fetchProfile: the row's columns, as it shows them.
FetchProfileColumns(rows, u) == rows[u].columns

\* What the owner reads back: loadMeasurements' view of fetchProfileMeasurements.
GetMeasurements(rows, u) == WithDefaults(FetchProfileMeasurements(rows, u))

\* C16: after a successful save, the owner reads back every field the save named
\* with the saved value, and every other field as it read before the save.
C16_SaveThenGet ==
  [][(profile'.last.op \in {"saveMeasurements", "saveProfileMeasurements"}
        /\ profile'.last.ok) =>
       \A k \in MeasurementNames :
         GetMeasurements(profile'.rows, profile'.last.by)[k]
           = IF k \in DOMAIN profile'.last.fields
             THEN profile'.last.fields[k]
             ELSE GetMeasurements(profile.rows, profile'.last.by)[k]]_vars

Transitions == {"transitionDetail", "transitionList"}

\* C17: an admin transition that the store accepts is to one of the four status
\* values, whatever the status before it, and the stored status is then the
\* requested value.
C17_AnyTransitionStored ==
  [][(lastOp'.op \in Transitions /\ lastOp'.outcome = "ok" /\ Exists(lastOp'.id)) =>
       /\ lastOp'.input \in DetailStatuses
       /\ commissions'[lastOp'.id].status = lastOp'.input]_vars

\* C18: after every successful owner update, owner cancel and admin transition
\* the row's updated_at is the time of that mutation.
C18_MutationStampsUpdatedAt ==
  [][(lastOp'.op \in {"update", "cancel"} \cup Transitions /\ lastOp'.outcome = "ok"
        /\ Exists(lastOp'.id)) =>
       commissions'[lastOp'.id].updated_at = "now"]_vars

\* Contents that are empty once surrounding white space is removed.
Blank(content) == content \in {"", "   "}

\* A sendMessage call has just returned (or reached its await).
JustSent == lastOp' # lastOp /\ lastOp'.op = "send"

C20_AnonymousListingRefused ==
  \A b \in Browsers :
    (chat[b].mounted /\ user[b] = NoUser) =>
      (chat[b].error # "" /\ chat[b].messages = <<>>)

\* The rows of the three tables, leaving aside the read flag of messages.
Posted == [i \in DOMAIN messages |-> [messages[i] EXCEPT !.read = FALSE]]

\* C21: a submit, a send or a save made while nobody is signed in in that
\* browser writes nothing, and while nobody is signed in anywhere no commission,
\* message or measurement profile is written at all.
C21_NoAnonymousWrite ==
  [][/\ (lastOp' # lastOp /\ lastOp'.op \in {"create", "send"} /\ lastOp'.by = NoUser)
          => (commissions' = commissions /\ messages' = messages)
     /\ (profile'.last.op = "saveMeasurements" /\ profile'.last.by = NoUser)
          => profile'.rows = profile.rows
     /\ (\A b \in Browsers : user[b] = NoUser)
          => (commissions' = commissions /\ Posted' = Posted /\ profile'.rows = profile.rows)
    ]_vars

\* Each of the three has been tried without a session, with rows in the store.
C21_WitnessSend ==
  /\ lastOp.op = "send" /\ lastOp.by = NoUser /\ lastOp.outcome = "AuthError"
  /\ messages # <<>>

C21_WitnessSubmit ==
  /\ lastOp.op = "create" /\ lastOp.by = NoUser /\ lastOp.outcome = "AuthError"

C21_WitnessSave ==
  /\ profile.last.op = "saveMeasurements" /\ profile.last.by = NoUser
  /\ profile.view["b1"].measurements.chest = 40
  /\ profile.view["b1"].error # ""

C21_Witness == C21_WitnessSend /\ C21_WitnessSave

\* The rows the continuation of fetch f in browser b marks read.
ResponseMarks(b, f) ==
  {id \in Range(f.data) : Message(id).sender_id # user[b]}

\* C22: when fetchMessages' continuation or the realtime handler marks read only
\* messages that are already read, the stored log is left exactly as it was
\* (read stays true, nothing else changes).
C22_MarkReadIdempotent ==
  [][\A b \in Browsers :
       /\ \A f \in chat[b].fetches :
            (/\ f.answered /\ f \notin chat'[b].fetches
             /\ \A id \in ResponseMarks(b, f) : Message(id).read)
              => messages' = messages
       /\ (/\ channel[b].queue # <<>> /\ channel'[b].queue = Tail(channel[b].queue)
           /\ Message(Head(channel[b].queue)).read)
              => messages' = messages]_vars

\* The handler of b2 has marked message 1 read, and a listing that contains
\* message 1 has been answered to b2, whose continuation marks it once more.
C22_Witness ==
  /\ Len(messages) >= 1 /\ Message(1).read
  /\ 1 \in Range(channel["b2"].delivered)
  /\ \E f \in chat["b2"].fetches :
       f.answered /\ ~f.orphan /\ 1 \in ResponseMarks("b2", f)

\* C23: after a successful deleteMeasurementData for an owner, each of the six
\* fields is absent or zero both where fetchProfileMeasurements reads it and
\* where the Profile page reads it.
C23_ClearedEverywhere ==
  [][(profile'.last.op = "deleteMeasurementData" /\ profile'.last.ok) =>
       \A k \in MeasurementNames :
         /\ GetMeasurements(profile'.rows, profile'.last.by)[k] = 0
         /\ FetchProfileColumns(profile'.rows, profile'.last.by)[k] \subseteq {0}]_vars

\* C24: when the store answers saveMeasurements with an error, the component
\* that made the save shows an error and no success message.
C24_SaveErrorReported ==
  [][(profile'.last.op = "saveMeasurements" /\ profile'.last.by # NoUser
        /\ ~profile'.last.ok) =>
       \A b \in Browsers :
         (user[b] = profile'.last.by /\ profile.view[b].mounted) =>
           /\ profile'.view[b].error # ""
           /\ profile'.view[b].successMessage = ""]_vars

\* C25: when the store refuses an owner cancel or an admin transition, the
\* failure is what the page reports, and neither the stored row nor any locally
\* held status changes.
C25_StoreErrorLeavesStatus ==
  [][/\ (lastOp'.op \in {"cancel", "transitionDetail", "transitionList"}
           /\ lastOp'.outcome = "StoreError")
          => /\ commissions' = commissions
             /\ \A b \in Browsers :
                  /\ page'[b].commission = page[b].commission
                  /\ page'[b].commissions = page[b].commissions
     /\ (lastOp'.op = "transitionListDone" /\ lastOp'.outcome = "StoreError")
          => /\ commissions' = commissions
             /\ \A b \in Browsers :
                  /\ page'[b].commission = page[b].commission
                  /\ page'[b].commissions = page[b].commissions]_vars

\* The store has refused a transition of a commission the list page shows with
\* a status, and the answer has come back to the page.
C25_Witness ==
  /\ lastOp.op = "transitionListDone" /\ lastOp.outcome = "StoreError"
  /\ Exists(lastOp.id)
  /\ \E b \in Browsers : \E c \in page[b].commissions :
       c.id = lastOp.id /\ c.status = commissions[c.id].status /\ c.status # lastOp.input

\* What a page shows of a fetch's outcome.
Outcome(p) == [error |-> p.error, commission |-> p.commission, formData |-> p.formData]

\* C26: what the owner's detail page and the edit page show a signed-in user who
\* asks for another user's commission is what they show for an id that names
\* no commission.
C26_ExistenceNotLeaked ==
  \A b \in Browsers : \A req \in page[b].pending :
    (/\ page[b].route \in {"details", "edit"}
     /\ req.userId # NoUser
     /\ Exists(req.id)
     /\ ~OwnsCommission(RowAt(req.id), req.userId))
      => Outcome(FetchResult(page[b], req))
           = Outcome(FetchResult(page[b], [req EXCEPT !.id = NoId]))

\* C27: on an edit page whose form was loaded for the signed-in user, a fetch
\* that a session notification for the same user started comes back without
\* altering the form's contents.
C27_RefreshKeepsForm ==
  [][\A b \in Browsers :
       (/\ page[b].route = "edit" /\ page'[b].route = "edit"
        /\ page[b].loadedFor # NoUser /\ page[b].loadedFor = user[b]
        /\ user'[b] = user[b]
        /\ page'[b].pending # page[b].pending
        /\ page'[b].pending \subseteq page[b].pending)
         => page'[b].formData = page[b].formData]_vars

\* C28: no message id is twice in a viewer's local message list.
C28_NoDuplicateIds ==
  \A b \in Browsers : \A id \in 1..Len(messages) : Count(chat[b].messages, id) <= 1

\* C29: a viewer's local message list is in the order of the stored log:
\* created_at never decreases along the list.
C29_LocalOrderIsStoredOrder ==
  \A b \in Browsers : \A i, j \in DOMAIN chat[b].messages :
    i < j => Message(chat[b].messages[i]).created_at <= Message(chat[b].messages[j]).created_at

\* C30: when no status update of an admin list page is under way, the status it
\* shows for each commission is the stored one.
C30_ListShowsStoredStatus ==
  \A b \in Browsers :
    (page[b].route = "adminList" /\ Shown(page[b]) /\ page[b].pending = {}
       /\ page[b].updates = {})
      => \A c \in page[b].commissions :
           Exists(c.id) => c.status = commissions[c.id].status

====
